---- MODULE Spec2Model ----
(***************************************************************************)
(* A model of l5kit's MapAPI (l5kit/data/map_api.py): the element index,   *)
(* the delta decoder, the lru-cached geometry accessors, the interpolation *)
(* engine and the bounds aggregator.                                       *)
(*                                                                         *)
(* Numbers.  numpy's float64 values are modelled as exact rationals        *)
(* <<n, d>> (d > 0, lowest terms).  Polylines of lane boundaries run along *)
(* the x axis (y and z constant per boundary), so that the Euclidean norm  *)
(* of every consecutive difference is the rational |dx|.                   *)
(*                                                                         *)
(* Objects.  A dict returned by get_lane_coords is a heap object: the      *)
(* caches hold its address, so that two names for one dict see each        *)
(* other's writes, as in Python.                                           *)
(***************************************************************************)
EXTENDS Integers, Sequences, FiniteSets, TLC

VARIABLES
    pc,            \* "new" | "ready" | "failed" | "pure"
    elements,      \* self.elements: the document, a sequence of elements
    ids_to_el,     \* self.ids_to_el: text id -> position (0-based)
    bounds_info,   \* self.bounds_info
    heap,          \* the dicts built by get_lane_coords, by address
    lane_cache,    \* lru cache of get_lane_coords: <<key, address>>, LRU first
    cw_cache,      \* lru cache of get_crosswalk_coords: <<key, value>>
    tc_cache,      \* lru cache of get_lane_traffic_control_ids: <<key, value>>
    interp_cache,  \* lru cache of get_lane_as_interpolation: <<key, address>>
    nEval,         \* history: how often the body ran and returned, per operation and key
    first_ret,     \* history: what the first get_lane_coords(id) returned
    last           \* the last call: operation, arguments, outcome

vars == <<pc, elements, ids_to_el, bounds_info, heap, lane_cache, cw_cache,
          tc_cache, interp_cache, nEval, first_ret, last>>

-----------------------------------------------------------------------------
(* Exact rationals standing for float64.                                   *)

Abs(n) == IF n < 0 THEN -n ELSE n

RECURSIVE GCD(_, _)
GCD(a, b) == IF b = 0 THEN a ELSE GCD(b, a % b)

Rat(n, d) ==
    LET Reduced(s, g) == <<(s * n) \div g, (s * d) \div g>>
    IN  Reduced(IF d < 0 THEN -1 ELSE 1, GCD(Abs(n), Abs(d)))

RInt(n) == <<n, 1>>
RAdd(a, b) == Rat(a[1] * b[2] + b[1] * a[2], a[2] * b[2])
RSub(a, b) == Rat(a[1] * b[2] - b[1] * a[2], a[2] * b[2])
RMul(a, b) == Rat(a[1] * b[1], a[2] * b[2])
RDiv(a, b) == Rat(a[1] * b[2], a[2] * b[1])
RLt(a, b) == a[1] * b[2] < b[1] * a[2]
RLe(a, b) == a[1] * b[2] <= b[1] * a[2]
RAbs(a) == <<Abs(a[1]), a[2]>>
RMin(a, b) == IF RLe(a, b) THEN a ELSE b
RMax(a, b) == IF RLe(a, b) THEN b ELSE a
\* math.ceil of a rational
RCeil(a) == -((-a[1]) \div a[2])
\* Python's int(): truncation towards zero
IntTrunc(a) == IF a[1] >= 0 THEN a[1] \div a[2] ELSE -((-a[1]) \div a[2])

\* outcomes of a call: a value, or the exception it raised
Ok(v) == [exc |-> "none", val |-> v]
Raise(e) == [exc |-> e, val |-> <<>>]

-----------------------------------------------------------------------------
(* numpy helpers                                                           *)

RECURSIVE Cumsum(_)
Cumsum(s) ==
    IF Len(s) = 0 THEN <<>>
    ELSE LET Extend(p) ==
                 IF Len(p) = 0 THEN <<s[1]>>
                 ELSE Append(p, RAdd(p[Len(p)], s[Len(s)]))
         IN  Extend(Cumsum(SubSeq(s, 1, Len(s) - 1)))

\* np.linalg.norm of a difference vector lying on one axis
Norm(v) ==
    IF v[2] = <<0, 1>> /\ v[3] = <<0, 1>> THEN RAbs(v[1])
    ELSE IF v[1] = <<0, 1>> /\ v[3] = <<0, 1>> THEN RAbs(v[2])
    ELSE RAbs(v[3])

\* np.diff(xyz, axis=0)
Diff(xyz) ==
    [i \in 1..(IF Len(xyz) = 0 THEN 0 ELSE Len(xyz) - 1) |->
        <<RSub(xyz[i + 1][1], xyz[i][1]),
          RSub(xyz[i + 1][2], xyz[i][2]),
          RSub(xyz[i + 1][3], xyz[i][3])>>]

\* np.insert(np.cumsum(np.linalg.norm(np.diff(xyz, axis=0), axis=-1)), 0, 0)
Distances(xyz) ==
    LET Along(d) == <<RInt(0)>> \o Cumsum([i \in 1..Len(d) |-> Norm(d[i])])
    IN  Along(Diff(xyz))

\* np.linspace as with endpoint=False: num steps of (stop - start) / num
LinspaceOpen(start, stop, num) ==
    [i \in 1..num |-> RAdd(start, RMul(RInt(i - 1), RDiv(RSub(stop, start), RInt(num))))]

\* np.linspace(start, stop, num) for num >= 1: the last value is stop itself
Linspace(start, stop, num) ==
    [i \in 1..num |->
        IF num > 1 /\ i = num THEN stop
        ELSE IF num = 1 THEN start
        ELSE RAdd(start, RMul(RInt(i - 1), RDiv(RSub(stop, start), RInt(num - 1))))]

\* a range that keeps its stop: floor((stop - start) / step) + 1 values
ArangeLenClosed(start, stop, step) ==
    LET Floor1(q) == IF q[1] < 0 THEN 0 ELSE (q[1] \div q[2]) + 1
    IN  Floor1(RDiv(RSub(stop, start), step))

\* np.arange(start, stop, step) for step > 0: ceil((stop - start) / step) values
ArangeLen(start, stop, step) ==
    LET NonNeg(n) == IF n < 0 THEN 0 ELSE n
    IN  NonNeg(RCeil(RDiv(RSub(stop, start), step)))

Arange(start, stop, step) ==
    [i \in 1..ArangeLen(start, stop, step) |-> RAdd(start, RMul(RInt(i - 1), step))]

\* the index np.interp's binary search finds: the last j with xp[j] <= x
LastLe(x, xp) ==
    CHOOSE j \in 1..Len(xp) :
        /\ RLe(xp[j], x)
        /\ \A k \in (j + 1)..Len(xp) : ~RLe(xp[k], x)

\* np.interp(x, xp, fp) at one position, len(xp) = len(fp) >= 1
Interp1(x, xp, fp) ==
    IF RLt(xp[Len(xp)], x) THEN fp[Len(fp)]
    ELSE IF RLt(x, xp[1]) THEN fp[1]
    ELSE LET Between(j) ==
                 IF j = Len(xp) \/ xp[j] = x THEN fp[j]
                 ELSE RAdd(fp[j],
                           RMul(RDiv(RSub(fp[j + 1], fp[j]), RSub(xp[j + 1], xp[j])),
                                RSub(x, xp[j])))
         IN  Between(LastLe(x, xp))

INTER_METER == 0
INTER_ENSURE_LEN == 1

\* what `steps` is set to at lines 160-169, or the exception raised there
InterpolateSteps(cum_dist, step, method) ==
    IF method = INTER_ENSURE_LEN THEN
        IF IntTrunc(step) > 1
        THEN Ok(Linspace(cum_dist[1], cum_dist[Len(cum_dist)], IntTrunc(step)))
        ELSE Raise("AssertionError")
    ELSE IF method = INTER_METER THEN
        IF RLt(RInt(0), step)
        THEN Ok(Arange(cum_dist[1], cum_dist[Len(cum_dist)], step))
        ELSE Raise("AssertionError")
    ELSE Raise("NotImplementedError")

\* MapAPI.interpolate(xyz, cum_dist, step, method)
interpolate(xyz, cum_dist, step, method) ==
    LET Axis1(k) == [n \in 1..Len(xyz) |-> xyz[n][k]]
        At(x) == <<Interp1(x, cum_dist, Axis1(1)), Interp1(x, cum_dist, Axis1(2)),
                   Interp1(x, cum_dist, Axis1(3))>>
        Sample(st) ==
            IF st.exc # "none" THEN st
            ELSE IF Len(cum_dist) = 0 \/ Len(xyz) # Len(cum_dist) THEN Raise("ValueError")
            ELSE Ok([i \in 1..Len(st.val) |-> At(st.val[i])])
    IN  Sample(InterpolateSteps(cum_dist, step, method))

-----------------------------------------------------------------------------
(* Identifiers: a GlobalId holds bytes; a str is a sequence of code points. *)

\* bytes.decode("utf-8") for one- and two-byte sequences (bytes below 0xE0)
RECURSIVE Utf8Decode(_)
Utf8Decode(b) ==
    LET Prepend(c, r) == IF r.exc # "none" THEN r ELSE Ok(<<c>> \o r.val)
    IN  IF Len(b) = 0 THEN Ok(<<>>)
        ELSE IF b[1] < 128 THEN Prepend(b[1], Utf8Decode(Tail(b)))
        ELSE IF b[1] >= 194 /\ b[1] <= 223 /\ Len(b) >= 2 /\ b[2] >= 128 /\ b[2] <= 191
        THEN Prepend((b[1] - 192) * 64 + (b[2] - 128), Utf8Decode(Tail(Tail(b))))
        ELSE Raise("UnicodeDecodeError")

\* MapAPI.id_as_str(element_id)
id_as_str(element_id) == Utf8Decode(element_id)

\* MapAPI._undo_e7(value)
undo_e7(value) == Rat(value, 10000000)

\* pm.enu2ecef followed by transform_points(xyz, ecef_to_world): a rigid map of
\* the local frame into the world frame, here the shift by the frame's origin
EnuToWorld(p, lat, lng) == <<RAdd(p[1], lng), RAdd(p[2], lat), p[3]>>

\* MapAPI.unpack_deltas_cm(dx, dy, dz, frame)
unpack_deltas_cm(dx, dy, dz, frame) ==
    LET Metres(d) == Cumsum([i \in 1..Len(d) |-> Rat(d[i], 100)])
        Stack(x, y, z, frame_lat, frame_lng) ==
            [i \in 1..Len(dx) |-> EnuToWorld(<<x[i], y[i], z[i]>>, frame_lat, frame_lng)]
    IN  Stack(Metres(dx), Metres(dy), Metres(dz),
              undo_e7(frame.lat_e7), undo_e7(frame.lng_e7))

\* MapAPI.is_lane(element)
is_lane(element) == element.kind = "lane"

\* MapAPI.is_crosswalk(element)
is_crosswalk(element) ==
    IF element.kind # "traffic_control_element" THEN FALSE
    ELSE element.pedestrian_crosswalk /\ Len(element.points.x) > 0

\* the five face fields is_traffic_face_colour probes, for one colour
FaceFields(colour) ==
    {<<"signal", colour>>, <<"signal_left_arrow", colour>>,
     <<"signal_right_arrow", colour>>, <<"signal_upper_left_arrow", colour>>,
     <<"signal_upper_right_arrow", colour>>}

-----------------------------------------------------------------------------
(* Element index                                                           *)

\* an index in which the first element carrying an id keeps it
RECURSIVE BuildIndexFirstWins(_, _)
BuildIndexFirstWins(els, n) ==
    LET Put(r, k) ==
            IF r.exc # "none" THEN r
            ELSE IF k.exc # "none" THEN k
            ELSE Ok([t \in (DOMAIN r.val) \cup {k.val} |->
                       IF t \in DOMAIN r.val THEN r.val[t] ELSE n - 1])
    IN  IF n = 0 THEN Ok(<<>>)
        ELSE Put(BuildIndexFirstWins(els, n - 1), id_as_str(els[n].id))

\* the dict comprehension of __init__: a later element overwrites an earlier id
RECURSIVE BuildIndex(_, _)
BuildIndex(els, n) ==
    LET Put(r, k) ==
            IF r.exc # "none" THEN r
            ELSE IF k.exc # "none" THEN k
            ELSE Ok([t \in (DOMAIN r.val) \cup {k.val} |->
                       IF t = k.val THEN n - 1 ELSE r.val[t]])
    IN  IF n = 0 THEN Ok(<<>>)
        ELSE Put(BuildIndex(els, n - 1), id_as_str(els[n].id))

StrKey(t) == [type |-> "str", v |-> t]
IntKey(i) == [type |-> "int", v |-> i]
BytesKey(b) == [type |-> "bytes", v |-> b]

\* an indexing that rejects every position outside [0, len)
ElementsAtNonNegative(els, i) ==
    IF i >= 0 /\ i < Len(els) THEN Ok([pos |-> i, el |-> els[i + 1]])
    ELSE Raise("IndexError")

\* protobuf's repeated container indexed by an int, as a Python list is
ElementsAt(els, i) ==
    IF i >= 0 /\ i < Len(els) THEN Ok([pos |-> i, el |-> els[i + 1]])
    ELSE IF i < 0 /\ i >= -Len(els) THEN Ok([pos |-> Len(els) + i, el |-> els[Len(els) + i + 1]])
    ELSE Raise("IndexError")

\* the state of a MapAPI object and of the lru caches of its methods, as one
\* value: the methods below take it and give it back
Self ==
    [elements |-> elements, ids_to_el |-> ids_to_el, bounds_info |-> bounds_info,
     heap |-> heap, lane_cache |-> lane_cache, cw_cache |-> cw_cache,
     tc_cache |-> tc_cache, interp_cache |-> interp_cache,
     nEval |-> nEval, first_ret |-> first_ret]

Result(self, res) == [self |-> self, res |-> res]

\* self.elements[self.ids_to_el[text]]: a plain dict, a missing key raises
ElementsByText(self, t) ==
    Result(self, IF t \in DOMAIN self.ids_to_el
                 THEN ElementsAt(self.elements, self.ids_to_el[t])
                 ELSE Raise("KeyError"))

\* MapAPI.__getitem__(item)
getitem(self, item) ==
    LET Decoded(t) == IF t.exc # "none" THEN Result(self, t) ELSE ElementsByText(self, t.val)
    IN  IF item.type = "str" THEN Decoded(Ok(item.v))
        ELSE IF item.type = "int" THEN Result(self, ElementsAt(self.elements, item.v))
        ELSE IF item.type = "bytes" THEN Decoded(Utf8Decode(item.v))
        ELSE Result(self, Raise("TypeError"))

\* MapAPI.__len__()
len(self) == Len(self.elements)

\* MapAPI.__iter__(), run to its end: self[i] for i in range(len(self))
RECURSIVE IterateFrom(_, _, _)
IterateFrom(self, i, out) ==
    LET Yield(r) ==
            IF r.res.exc # "none" THEN r
            ELSE IterateFrom(r.self, i + 1, Append(out, r.res.val))
    IN  IF i >= len(self) THEN Result(self, Ok(out))
        ELSE Yield(getitem(self, IntKey(i)))

\* an iteration that consumes the elements it yields
iterate_consuming(self) ==
    LET Drain(r) == Result([r.self EXCEPT !.elements = <<>>], r.res)
    IN  Drain(IterateFrom(self, 0, <<>>))

iterate(self) == IterateFrom(self, 0, <<>>)

\* MapAPI.is_traffic_face_colour(element_id, colour)
is_traffic_face_colour(self, element_id, colour) ==
    LET Probe(e) ==
            IF e.res.exc # "none" THEN e
            ELSE IF e.res.val.el.kind # "traffic_control_element"
            THEN Result(e.self, Ok(FALSE))
            ELSE Result(e.self, Ok(FaceFields(colour) \cap e.res.val.el.faces # {}))
    IN  Probe(getitem(self, StrKey(element_id)))

-----------------------------------------------------------------------------
(* functools.lru_cache(maxsize=CACHE_SIZE): entries <<key, value>>, the    *)
(* least recently used first.                                              *)

CACHE_SIZE == 100000

CacheHas(c, k) == \E i \in 1..Len(c) : c[i][1] = k
CacheGet(c, k) == (CHOOSE e \in {c[i] : i \in 1..Len(c)} : e[1] = k)[2]

\* a hit makes the entry the most recently used
CacheTouch(c, k) ==
    LET Other(e) == e[1] # k
        Kept(e) == e[1] = k
    IN  SelectSeq(c, Other) \o SelectSeq(c, Kept)

\* a wrapper that stores nothing
CacheStoreNothing(c, k, v) == c

\* a miss stores the result; a full cache drops its least recently used entry
CacheStore(c, k, v) ==
    Append(IF Len(c) >= CACHE_SIZE THEN Tail(c) ELSE c, <<k, v>>)

\* history: one more evaluation of the body of `op` for key k has returned
Count(f, k) == IF k \in DOMAIN f THEN f[k] ELSE 0

Returned(self, op, k) ==
    [self EXCEPT !.nEval[op] =
        [x \in (DOMAIN @) \cup {k} |-> IF x = k THEN Count(@, k) + 1 ELSE @[x]]]

\* lines 126-143: the dict of the two decoded boundaries of a lane
DecodeLane(lane) ==
    [xyz_left |-> unpack_deltas_cm(lane.left.x, lane.left.y, lane.left.z, lane.frame),
     xyz_right |-> unpack_deltas_cm(lane.right.x, lane.right.y, lane.right.z, lane.frame),
     has_midlane |-> FALSE,
     midlane |-> <<>>]

\* the body of get_lane_coords (lines 123-143): a new dict
LaneCoordsBody(self, element_id) ==
    LET Decode(e) ==
            IF e.res.exc # "none" THEN e
            ELSE IF ~is_lane(e.res.val.el) THEN Result(e.self, Raise("AssertionError"))
            ELSE Result(e.self, Ok(DecodeLane(e.res.val.el)))
    IN  Decode(getitem(self, StrKey(element_id)))

\* history: the first value get_lane_coords returned for an id
NoteFirst(self, element_id, d) ==
    IF element_id \in DOMAIN self.first_ret THEN self
    ELSE [self EXCEPT !.first_ret =
            [x \in (DOMAIN @) \cup {element_id} |->
                IF x = element_id
                THEN [xyz_left |-> d.xyz_left, xyz_right |-> d.xyz_right]
                ELSE @[x]]]

\* lru_cache's wrapper around get_lane_coords, on a miss: the result of the body
\* is stored, an exception is not
LaneCoordsMiss(self, element_id) ==
    LET Store(b, a) ==
            IF b.res.exc # "none" THEN b
            ELSE Result(NoteFirst(Returned([b.self EXCEPT
                                               !.heap = Append(@, b.res.val),
                                               !.lane_cache = CacheStore(@, element_id, a)],
                                           "get_lane_coords", element_id),
                                  element_id, b.res.val),
                        Ok(a))
    IN  Store(LaneCoordsBody(self, element_id), Len(self.heap) + 1)

\* MapAPI.get_lane_coords(element_id), with its lru_cache: the dict's address
get_lane_coords(self, element_id) ==
    LET Hit(a) ==
            Result(NoteFirst([self EXCEPT !.lane_cache = CacheTouch(@, element_id)],
                             element_id, self.heap[a]),
                   Ok(a))
    IN  IF CacheHas(self.lane_cache, element_id)
        THEN Hit(CacheGet(self.lane_cache, element_id))
        ELSE LaneCoordsMiss(self, element_id)

\* lines 256-265: the dict of the decoded polygon of a crosswalk
DecodeCrosswalk(t) ==
    [xyz |-> unpack_deltas_cm(t.points.x, t.points.y, t.points.z, t.frame)]

\* the body of get_crosswalk_coords (lines 254-265)
CrosswalkCoordsBody(self, element_id) ==
    LET Decode(e) ==
            IF e.res.exc # "none" THEN e
            ELSE IF ~is_crosswalk(e.res.val.el) THEN Result(e.self, Raise("AssertionError"))
            ELSE Result(e.self, Ok(DecodeCrosswalk(e.res.val.el)))
    IN  Decode(getitem(self, StrKey(element_id)))

\* MapAPI.get_crosswalk_coords(element_id), with its lru_cache
get_crosswalk_coords(self, element_id) ==
    LET Store(b) ==
            IF b.res.exc # "none" THEN b
            ELSE Result(Returned([b.self EXCEPT
                                     !.cw_cache = CacheStore(@, element_id, b.res.val)],
                                 "get_crosswalk_coords", element_id),
                        b.res)
    IN  IF CacheHas(self.cw_cache, element_id)
        THEN Result([self EXCEPT !.cw_cache = CacheTouch(@, element_id)],
                    Ok(CacheGet(self.cw_cache, element_id)))
        ELSE Store(CrosswalkCoordsBody(self, element_id))

\* [MapAPI.id_as_str(la_tc) for la_tc in lane.traffic_controls]
RECURSIVE IdsAsStr(_)
IdsAsStr(ids) ==
    LET Cons(h, r) ==
            IF h.exc # "none" THEN h
            ELSE IF r.exc # "none" THEN r
            ELSE Ok(<<h.val>> \o r.val)
    IN  IF Len(ids) = 0 THEN Ok(<<>>)
        ELSE Cons(id_as_str(Head(ids)), IdsAsStr(Tail(ids)))

\* the body of get_lane_traffic_control_ids (lines 179-180): no is_lane check,
\* an element that is no lane has an empty default lane
TrafficControlIdsBody(self, element_id) ==
    LET Ids(e) ==
            IF e.res.exc # "none" THEN e
            ELSE Result(e.self, IdsAsStr(e.res.val.el.traffic_controls))
    IN  Ids(getitem(self, StrKey(element_id)))

\* MapAPI.get_lane_traffic_control_ids(element_id), with its lru_cache
get_lane_traffic_control_ids(self, element_id) ==
    LET Store(b) ==
            IF b.res.exc # "none" THEN b
            ELSE Result(Returned([b.self EXCEPT
                                     !.tc_cache = CacheStore(@, element_id, b.res.val)],
                                 "get_lane_traffic_control_ids", element_id),
                        b.res)
    IN  IF CacheHas(self.tc_cache, element_id)
        THEN Result([self EXCEPT !.tc_cache = CacheTouch(@, element_id)],
                    Ok(CacheGet(self.tc_cache, element_id)))
        ELSE Store(TrafficControlIdsBody(self, element_id))

-----------------------------------------------------------------------------
(* Interpolated lanes                                                      *)

\* the count taken from the resampled boundaries instead
MidStepsOfResampled(xyz_left, xyz_right, new_left, new_right) ==
    IF Len(new_left) >= Len(new_right) THEN Len(new_left) ELSE Len(new_right)

\* line 212: the count of the second resampling, from the boundaries as they
\* were read at lines 197-198 (new_left, new_right are their resamplings)
MidSteps(xyz_left, xyz_right, new_left, new_right) ==
    IF Len(xyz_left) >= Len(xyz_right) THEN Len(xyz_left) ELSE Len(xyz_right)

\* line 221: (xyz_left + xyz_right) / 2 on arrays of the same length
Midlane(l, r) ==
    LET Mean(a, b) == RDiv(RAdd(a, b), RInt(2))
    IN  [i \in 1..Len(l) |->
            [k \in 1..3 |-> Mean(l[i][k], r[i][k])]]

\* lines 197-223, on the dict at address a: every assignment to lane_dict[...]
\* writes the dict that get_lane_coords has in its cache
InterpolationBody(self, a, step, method) ==
    LET \* lines 211-221, with lane_dict as lines 207-208 left it
        Line221(s208, l, r) ==
            IF l.exc # "none" THEN Result(s208, l)
            ELSE IF r.exc # "none" THEN Result(s208, r)
            ELSE Result([s208 EXCEPT !.heap[a].midlane = Midlane(l.val, r.val),
                                     !.heap[a].has_midlane = TRUE],
                        Ok(a))
        Line211(s208, xyz_left, xyz_right, distances_left, distances_right, il, ir) ==
            IF method # INTER_ENSURE_LEN
            THEN LET Resample(mid_steps) ==
                         Line221(s208,
                                 interpolate(xyz_left, distances_left, mid_steps,
                                             INTER_ENSURE_LEN),
                                 interpolate(xyz_right, distances_right, mid_steps,
                                             INTER_ENSURE_LEN))
                 IN  Resample(RInt(MidSteps(xyz_left, xyz_right, il.val, ir.val)))
            ELSE Line221(s208, il, ir)
        \* line 208
        Line208(s207, xyz_left, xyz_right, distances_left, distances_right, il, ir) ==
            IF ir.exc # "none" THEN Result(s207, ir)
            ELSE Line211([s207 EXCEPT !.heap[a].xyz_right = ir.val],
                         xyz_left, xyz_right, distances_left, distances_right, il, ir)
        \* line 207
        Line207(xyz_left, xyz_right, distances_left, distances_right, il) ==
            IF il.exc # "none" THEN Result(self, il)
            ELSE Line208([self EXCEPT !.heap[a].xyz_left = il.val],
                         xyz_left, xyz_right, distances_left, distances_right, il,
                         interpolate(xyz_right, distances_right, step, method))
        \* lines 201-205
        Line201(xyz_left, xyz_right, distances_left, distances_right) ==
            Line207(xyz_left, xyz_right, distances_left, distances_right,
                    interpolate(xyz_left, distances_left, step, method))
        \* lines 197-198
        Line197(xyz_left, xyz_right) ==
            Line201(xyz_left, xyz_right, Distances(xyz_left), Distances(xyz_right))
    IN  Line197(self.heap[a].xyz_left, self.heap[a].xyz_right)

\* lru_cache's wrapper around get_lane_as_interpolation, on a miss
InterpolationMiss(self, element_id, step, method) ==
    LET Store(b, key) ==
            IF b.res.exc # "none" THEN b
            ELSE Result(Returned([b.self EXCEPT !.interp_cache =
                                     CacheStore(@, key, b.res.val)],
                                 "get_lane_as_interpolation", key),
                        b.res)
        Body(lc) ==
            IF lc.res.exc # "none" THEN lc
            ELSE Store(InterpolationBody(lc.self, lc.res.val, step, method),
                       <<element_id, step, method>>)
    IN  Body(get_lane_coords(self, element_id))

\* MapAPI.get_lane_as_interpolation(element_id, step, method), with its lru_cache
get_lane_as_interpolation(self, element_id, step, method) ==
    LET Cached(key) ==
            IF CacheHas(self.interp_cache, key)
            THEN Result([self EXCEPT !.interp_cache = CacheTouch(@, key)],
                        Ok(CacheGet(self.interp_cache, key)))
            ELSE InterpolationMiss(self, element_id, step, method)
    IN  Cached(<<element_id, step, method>>)

-----------------------------------------------------------------------------
(* Bounds                                                                  *)

SeqMin(s) == CHOOSE x \in {s[i] : i \in 1..Len(s)} : \A i \in 1..Len(s) : RLe(x, s[i])
SeqMax(s) == CHOOSE x \in {s[i] : i \in 1..Len(s)} : \A i \in 1..Len(s) : RLe(s[i], x)
Axis(xyz, k) == [i \in 1..Len(xyz) |-> xyz[i][k]]

\* lines 310-313: [[x_min, y_min], [x_max, y_max]] over both boundaries
LaneBounds(d) ==
    LET Corners(lx, ly, rx, ry) ==
            <<<<RMin(SeqMin(lx), SeqMin(rx)), RMin(SeqMin(ly), SeqMin(ry))>>,
              <<RMax(SeqMax(lx), SeqMax(rx)), RMax(SeqMax(ly), SeqMax(ry))>>>>
    IN  Corners(Axis(d.xyz_left, 1), Axis(d.xyz_left, 2),
                Axis(d.xyz_right, 1), Axis(d.xyz_right, 2))

\* lines 320-323
CrosswalkBounds(c) ==
    LET Corners(x, y) == <<<<SeqMin(x), SeqMin(y)>>, <<SeqMax(x), SeqMax(y)>>>>
    IN  Corners(Axis(c.xyz, 1), Axis(c.xyz, 2))

EmptyBounds ==
    [lanes |-> [bounds |-> <<>>, ids |-> <<>>],
     crosswalks |-> [bounds |-> <<>>, ids |-> <<>>]]

\* one turn of the loop of get_bounds (lines 305-328) on element number n: the
\* coordinates are fetched by the element's id, not from the element at hand
BoundsStep(self, acc, n) ==
    LET Lane(element_id, r, lane) ==
            IF Len(lane.xyz_left) = 0 \/ Len(lane.xyz_right) = 0
            THEN Result(r.self, Raise("ValueError"))
            ELSE Result(r.self,
                        Ok([acc EXCEPT !.lanes.bounds = Append(@, LaneBounds(lane)),
                                       !.lanes.ids = Append(@, element_id)]))
        LaneCoords(element_id, r) ==
            IF r.res.exc # "none" THEN r
            ELSE Lane(element_id, r, r.self.heap[r.res.val])
        CrosswalkCoords(element_id, r) ==
            IF r.res.exc # "none" THEN r
            ELSE Result(r.self,
                        Ok([acc EXCEPT
                            !.crosswalks.bounds = Append(@, CrosswalkBounds(r.res.val)),
                            !.crosswalks.ids = Append(@, element_id)]))
        Turn(element, element_id) ==
            IF is_lane(element)
            THEN LaneCoords(element_id, get_lane_coords(self, element_id))
            ELSE IF is_crosswalk(element)
            THEN CrosswalkCoords(element_id, get_crosswalk_coords(self, element_id))
            ELSE Result(self, Ok(acc))
    IN  Turn(self.elements[n], id_as_str(self.elements[n].id).val)

\* MapAPI.get_bounds() over the first n elements
RECURSIVE BoundsUpTo(_, _)
BoundsUpTo(self, n) ==
    LET Then(r) == IF r.res.exc # "none" THEN r ELSE BoundsStep(r.self, r.res.val, n)
    IN  IF n = 0 THEN Result(self, Ok(EmptyBounds))
        ELSE Then(BoundsUpTo(self, n - 1))

get_bounds(self) == BoundsUpTo(self, Len(self.elements))

\* MapAPI.__init__ on a parsed document: the index, then the bounds
init(els) ==
    LET Line42(gb) ==
            IF gb.res.exc # "none" THEN gb
            ELSE Result([gb.self EXCEPT !.bounds_info = gb.res.val], Ok(<<>>))
        Line40(ix, s0) ==
            IF ix.exc # "none" THEN Result(s0, ix)
            ELSE Line42(get_bounds([s0 EXCEPT !.ids_to_el = ix.val]))
    IN  Line40(BuildIndex(els, Len(els)),
               [elements |-> els, ids_to_el |-> <<>>, bounds_info |-> EmptyBounds,
                heap |-> <<>>, lane_cache |-> <<>>, cw_cache |-> <<>>,
                tc_cache |-> <<>>, interp_cache |-> <<>>,
                nEval |-> [get_lane_coords |-> <<>>, get_crosswalk_coords |-> <<>>,
                           get_lane_traffic_control_ids |-> <<>>,
                           get_lane_as_interpolation |-> <<>>],
                first_ret |-> <<>>])

-----------------------------------------------------------------------------
(* Documents                                                               *)

MaxElems == 2
MaxEval == 2

D(xs, ys, zs) == [x |-> xs, y |-> ys, z |-> zs]
NoPoints == D(<<>>, <<>>, <<>>)
Frame(lat, lng) == [lat_e7 |-> lat, lng_e7 |-> lng]

LaneEl(id, left, right, frame, tcs) ==
    [id |-> id, kind |-> "lane", left |-> left, right |-> right, frame |-> frame,
     traffic_controls |-> tcs, pedestrian_crosswalk |-> FALSE, points |-> NoPoints,
     faces |-> {}]

TrafficEl(id, crosswalk, points, frame, faces) ==
    [id |-> id, kind |-> "traffic_control_element", left |-> NoPoints,
     right |-> NoPoints, frame |-> frame, traffic_controls |-> <<>>,
     pedestrian_crosswalk |-> crosswalk, points |-> points, faces |-> faces]

UnsetEl(id) ==
    [id |-> id, kind |-> "unset", left |-> NoPoints, right |-> NoPoints,
     frame |-> Frame(0, 0), traffic_controls |-> <<>>,
     pedestrian_crosswalk |-> FALSE, points |-> NoPoints, faces |-> {}]

IdA == <<97>>
IdB == <<98>>
IdE == <<195, 169>>
IdBad == <<255>>

\* boundaries run along x; deltas are centimetres
LongLane ==
    LaneEl(IdA, D(<<100, 200>>, <<0, 0>>, <<0, 0>>),
                D(<<0, 100, 100, 100>>, <<200, 0, 0, 0>>, <<50, 0, 0, 0>>),
                Frame(0, 0), <<IdB>>)
HalfLane ==
    LaneEl(IdA, D(<<200, -100>>, <<0, 0>>, <<0, 0>>), D(<<0>>, <<200>>, <<0>>),
                Frame(10000000, 0), <<>>)
PointLane ==
    LaneEl(IdA, D(<<0>>, <<0>>, <<0>>), D(<<0>>, <<100>>, <<0>>),
                Frame(0, 0), <<IdBad>>)
Crosswalk ==
    TrafficEl(IdE, TRUE, D(<<0, 100, 0>>, <<0, 0, 100>>, <<0, 0, 0>>),
              Frame(0, 10000000), {})
Signal ==
    TrafficEl(IdB, FALSE, NoPoints, Frame(0, 0), {<<"signal_left_arrow", "red">>})
EmptyCrosswalk == TrafficEl(IdA, TRUE, NoPoints, Frame(0, 0), {})

\* the elements documents are made of
Elems == {LongLane, HalfLane, PointLane, Crosswalk, Signal, EmptyCrosswalk, UnsetEl(IdBad)}

\* every document of at most MaxElems elements, duplicate ids included
Documents == UNION {[1..n -> Elems] : n \in 1..MaxElems}

\* the documents the geometry queries are explored on
LaneDocuments == {<<LongLane>>, <<HalfLane>>, <<Crosswalk, PointLane>>, <<Signal>>}

TextIds == {<<97>>, <<98>>, <<233>>}
Positions == (-(MaxElems + 1))..MaxElems
ByteIds == {IdA, IdE, IdBad}
Colours == {"red", "green"}
Steps == {RInt(0), RInt(1), RInt(2)}
Methods == {INTER_METER, INTER_ENSURE_LEN, 2}

-----------------------------------------------------------------------------
(* The state machine                                                       *)

NoCall == [op |-> "none", args |-> <<>>, exc |-> "none", val |-> <<>>,
           hit |-> FALSE, evals |-> 0, pre |-> <<>>]

\* history: how many times in a row, this call included, a call of `op` with
\* these arguments has evaluated the body (0 after a hit)
Evals(op, args, hit) ==
    IF hit THEN 0
    ELSE IF last.op = op /\ last.args = args THEN last.evals + 1
    ELSE 1

\* a call of an operation that has no cache
Called(op, args, res, val) ==
    [op |-> op, args |-> args, exc |-> res.exc,
     val |-> IF res.exc = "none" THEN val ELSE <<>>,
     hit |-> FALSE, evals |-> 0, pre |-> <<>>]

\* a call of an lru-cached method
CalledCached(op, args, res, val, hit, pre) ==
    [op |-> op, args |-> args, exc |-> res.exc,
     val |-> IF res.exc = "none" THEN val ELSE <<>>,
     hit |-> hit, evals |-> Evals(op, args, hit), pre |-> pre]

SetSelf(s) ==
    /\ elements' = s.elements
    /\ ids_to_el' = s.ids_to_el
    /\ bounds_info' = s.bounds_info
    /\ heap' = s.heap
    /\ lane_cache' = s.lane_cache
    /\ cw_cache' = s.cw_cache
    /\ tc_cache' = s.tc_cache
    /\ interp_cache' = s.interp_cache
    /\ nEval' = s.nEval
    /\ first_ret' = s.first_ret

\* no body is evaluated more than MaxEval times for one key
EvalBound(s) ==
    /\ \A op \in DOMAIN s.nEval : \A k \in DOMAIN s.nEval[op] : s.nEval[op][k] <= MaxEval
    /\ last'.evals <= MaxEval

\* the dict at an address, as the caller sees it when the call returns
Snapshot(s, res) ==
    LET Dict(a, d) ==
            [addr |-> a, xyz_left |-> d.xyz_left, xyz_right |-> d.xyz_right,
             has_midlane |-> d.has_midlane, midlane |-> d.midlane]
    IN  IF res.exc # "none" THEN <<>> ELSE Dict(res.val, s.heap[res.val])

Fresh ==
    /\ pc = "new"
    /\ ids_to_el = <<>>
    /\ bounds_info = EmptyBounds
    /\ heap = <<>>
    /\ lane_cache = <<>>
    /\ cw_cache = <<>>
    /\ tc_cache = <<>>
    /\ interp_cache = <<>>
    /\ nEval = [get_lane_coords |-> <<>>, get_crosswalk_coords |-> <<>>,
                get_lane_traffic_control_ids |-> <<>>,
                get_lane_as_interpolation |-> <<>>]
    /\ first_ret = <<>>
    /\ last = NoCall

Init == Fresh /\ elements \in LaneDocuments

InitIndex == Fresh /\ elements \in Documents

\* MapAPI(protobuf_map_path, world_to_ecef): an exception leaves no object
Construct ==
    /\ pc = "new"
    /\ LET Built(r) ==
               /\ last' = Called("__init__", <<>>, r.res, <<>>)
               /\ IF r.res.exc # "none"
                  THEN /\ pc' = "failed"
                       /\ UNCHANGED <<elements, ids_to_el, bounds_info, heap, lane_cache,
                                      cw_cache, tc_cache, interp_cache, nEval, first_ret>>
                  ELSE /\ pc' = "ready"
                       /\ SetSelf(r.self)
       IN  Built(init(elements))

\* api[item]
GetItem(item) ==
    /\ pc = "ready"
    /\ LET Got(r) ==
               /\ SetSelf(r.self)
               /\ last' = Called("__getitem__", <<item>>, r.res, r.res.val)
       IN  Got(getitem(Self, item))
    /\ UNCHANGED pc

\* len(api)
LenCall ==
    /\ pc = "ready"
    /\ LET Got(n) == last' = Called("__len__", <<>>, Ok(n), n)
       IN  Got(len(Self))
    /\ UNCHANGED <<pc, elements, ids_to_el, bounds_info, heap, lane_cache, cw_cache,
                   tc_cache, interp_cache, nEval, first_ret>>

\* list(api)
IterCall ==
    /\ pc = "ready"
    /\ LET Got(r) ==
               /\ SetSelf(r.self)
               /\ last' = Called("__iter__", <<>>, r.res, r.res.val)
       IN  Got(iterate(Self))
    /\ UNCHANGED pc

\* MapAPI.is_lane(api[i])
IsLaneCall(i) ==
    /\ pc = "ready"
    /\ i < Len(elements)
    /\ last' = Called("is_lane", <<i>>, Ok(0), is_lane(elements[i + 1]))
    /\ UNCHANGED <<pc, elements, ids_to_el, bounds_info, heap, lane_cache, cw_cache,
                   tc_cache, interp_cache, nEval, first_ret>>

\* MapAPI.is_crosswalk(api[i])
IsCrosswalkCall(i) ==
    /\ pc = "ready"
    /\ i < Len(elements)
    /\ last' = Called("is_crosswalk", <<i>>, Ok(0), is_crosswalk(elements[i + 1]))
    /\ UNCHANGED <<pc, elements, ids_to_el, bounds_info, heap, lane_cache, cw_cache,
                   tc_cache, interp_cache, nEval, first_ret>>

\* api.is_traffic_face_colour(element_id, colour)
IsTrafficFaceColour(element_id, colour) ==
    /\ pc = "ready"
    /\ LET Got(r) ==
               /\ SetSelf(r.self)
               /\ last' = Called("is_traffic_face_colour", <<element_id, colour>>, r.res,
                                 r.res.val)
       IN  Got(is_traffic_face_colour(Self, element_id, colour))
    /\ UNCHANGED pc

\* api.get_lane_coords(element_id)
GetLaneCoords(element_id) ==
    /\ pc = "ready"
    /\ LET Got(r) ==
               /\ SetSelf(r.self)
               /\ last' = CalledCached("get_lane_coords", <<element_id>>, r.res,
                                       Snapshot(r.self, r.res),
                                       CacheHas(lane_cache, element_id), <<>>)
               /\ EvalBound(r.self)
       IN  Got(get_lane_coords(Self, element_id))
    /\ UNCHANGED pc

\* api.get_crosswalk_coords(element_id)
GetCrosswalkCoords(element_id) ==
    /\ pc = "ready"
    /\ LET Got(r) ==
               /\ SetSelf(r.self)
               /\ last' = CalledCached("get_crosswalk_coords", <<element_id>>, r.res,
                                       r.res.val, CacheHas(cw_cache, element_id), <<>>)
               /\ EvalBound(r.self)
       IN  Got(get_crosswalk_coords(Self, element_id))
    /\ UNCHANGED pc

\* api.get_lane_traffic_control_ids(element_id)
GetLaneTrafficControlIds(element_id) ==
    /\ pc = "ready"
    /\ LET Got(r) ==
               /\ SetSelf(r.self)
               /\ last' = CalledCached("get_lane_traffic_control_ids", <<element_id>>,
                                       r.res, r.res.val,
                                       CacheHas(tc_cache, element_id), <<>>)
               /\ EvalBound(r.self)
       IN  Got(get_lane_traffic_control_ids(Self, element_id))
    /\ UNCHANGED pc

\* the boundaries the body of get_lane_as_interpolation reads at lines 196-198
\* when it is evaluated now (history, for the properties of its result)
BoundariesRead(element_id) ==
    LET Read(r) ==
            IF r.res.exc # "none" THEN <<>>
            ELSE [xyz_left |-> r.self.heap[r.res.val].xyz_left,
                  xyz_right |-> r.self.heap[r.res.val].xyz_right]
    IN  Read(get_lane_coords(Self, element_id))

\* api.get_lane_as_interpolation(element_id, step, method)
GetLaneAsInterpolation(element_id, step, method) ==
    /\ pc = "ready"
    /\ LET Got(r, key) ==
               /\ SetSelf(r.self)
               /\ last' = CalledCached("get_lane_as_interpolation", key, r.res,
                                       Snapshot(r.self, r.res),
                                       CacheHas(interp_cache, key),
                                       BoundariesRead(element_id))
               /\ EvalBound(r.self)
       IN  Got(get_lane_as_interpolation(Self, element_id, step, method),
               <<element_id, step, method>>)
    /\ UNCHANGED pc

Next ==
    \/ Construct
    \/ \E t \in TextIds : GetItem(StrKey(t))
    \/ \E i \in Positions : GetItem(IntKey(i))
    \/ \E b \in ByteIds : GetItem(BytesKey(b))
    \/ GetItem([type |-> "float", v |-> <<1, 2>>])
    \/ LenCall
    \/ IterCall
    \/ \E i \in 0..(MaxElems - 1) : IsLaneCall(i)
    \/ \E i \in 0..(MaxElems - 1) : IsCrosswalkCall(i)
    \/ \E t \in TextIds, c \in Colours : IsTrafficFaceColour(t, c)
    \/ \E t \in TextIds : GetLaneCoords(t)
    \/ \E t \in TextIds : GetCrosswalkCoords(t)
    \/ \E t \in TextIds : GetLaneTrafficControlIds(t)
    \/ \E t \in TextIds, step \in Steps, method \in Methods :
          GetLaneAsInterpolation(t, step, method)

Spec == Init /\ [][Next]_vars

\* the element index alone, over every document
NextIndex ==
    \/ Construct
    \/ \E t \in TextIds : GetItem(StrKey(t))
    \/ \E i \in Positions : GetItem(IntKey(i))
    \/ \E b \in ByteIds : GetItem(BytesKey(b))
    \/ GetItem([type |-> "float", v |-> <<1, 2>>])
    \/ LenCall
    \/ IterCall
    \/ \E i \in 0..(MaxElems - 1) : IsLaneCall(i)
    \/ \E i \in 0..(MaxElems - 1) : IsCrosswalkCall(i)
    \/ \E t \in TextIds, c \in Colours : IsTrafficFaceColour(t, c)

SpecIndex == InitIndex /\ [][NextIndex]_vars

-----------------------------------------------------------------------------
(* MapAPI.interpolate on its own: a static method, called on polylines and  *)
(* their cumulative distances                                              *)

MaxPts == 3
MaxCoord == 2
MaxCount == 3

\* polylines of 1..MaxPts points on a line parallel to the x axis
Polylines ==
    UNION {[1..n -> {<<RInt(x), RInt(1), Rat(1, 2)>> : x \in 0..MaxCoord}] : n \in 1..MaxPts}

\* the step argument: halves from -1/2 to MaxCount
PureSteps == {Rat(n, 2) : n \in (-1)..(2 * MaxCount)}

\* cumulative distances as lines 201-205 compute them, from a first distance
CumDist(xyz, first) ==
    LET Shift(d) == [i \in 1..Len(d) |-> RAdd(first, d[i])] IN Shift(Distances(xyz))

\* the arguments of a call of interpolate that is about to be made
Pending(xyz, first, step, method) ==
    [op |-> "pending", args |-> <<xyz, CumDist(xyz, first), step, method>>,
     exc |-> "none", val |-> <<>>, hit |-> FALSE, evals |-> 0, pre |-> <<>>]

InitInterp ==
    /\ pc = "pure"
    /\ elements = <<>>
    /\ ids_to_el = <<>>
    /\ bounds_info = EmptyBounds
    /\ heap = <<>>
    /\ lane_cache = <<>>
    /\ cw_cache = <<>>
    /\ tc_cache = <<>>
    /\ interp_cache = <<>>
    /\ nEval = [get_lane_coords |-> <<>>, get_crosswalk_coords |-> <<>>,
                get_lane_traffic_control_ids |-> <<>>,
                get_lane_as_interpolation |-> <<>>]
    /\ first_ret = <<>>
    /\ \E xyz \in Polylines, first \in {RInt(0), RInt(1)}, step \in PureSteps,
          method \in Methods : last = Pending(xyz, first, step, method)

\* MapAPI.interpolate(xyz, cum_dist, step, method); `pre` keeps the sample
\* positions of lines 163 and 167
Interpolate ==
    /\ pc = "pure"
    /\ last.op = "pending"
    /\ LET Got(r, st) ==
               last' = [op |-> "interpolate", args |-> last.args,
                        exc |-> r.exc, val |-> r.val, hit |-> FALSE, evals |-> 0,
                        pre |-> st.val]
       IN  Got(interpolate(last.args[1], last.args[2], last.args[3], last.args[4]),
               InterpolateSteps(last.args[2], last.args[3], last.args[4]))
    /\ UNCHANGED <<pc, elements, ids_to_el, bounds_info, heap, lane_cache, cw_cache,
                   tc_cache, interp_cache, nEval, first_ret>>

NextInterp == Interpolate

SpecInterp == InitInterp /\ [][NextInterp]_vars

-----------------------------------------------------------------------------
(* Properties of interpolate (SpecInterp)                                  *)

InterpolateCalled(method) ==
    pc = "pure" /\ last.op = "interpolate" /\ last.args[4] = method

\* C5: interpolate with INTER_ENSURE_LEN and a count n >= 2 returns exactly n
\* points, the first the polyline's first point and the last its last point; a
\* count below 2 is rejected with an AssertionError.
C5_FixedCount ==
    InterpolateCalled(INTER_ENSURE_LEN) =>
        LET xyz == last.args[1]
            n == IntTrunc(last.args[3])
        IN  IF n >= 2
            THEN /\ last.exc = "none"
                 /\ Len(last.val) = n
                 /\ last.val[1] = xyz[1]
                 /\ last.val[n] = xyz[Len(xyz)]
            ELSE last.exc = "AssertionError"

\* a polyline of three points with distinct ends, resampled to three points
C5_Witness ==
    /\ InterpolateCalled(INTER_ENSURE_LEN)
    /\ IntTrunc(last.args[3]) = 3
    /\ Len(last.args[1]) = 3
    /\ last.args[1][1] # last.args[1][3]
    /\ last.exc = "none"
    /\ Len(last.val) = 3

-----------------------------------------------------------------------------
(* Properties of the element index and of the bounds (SpecIndex)           *)

\* the text ids and the byte ids the elements of the document carry
CarriedBytes == {elements[p].id : p \in 1..Len(elements)}
CarriedText == {id_as_str(b).val : b \in CarriedBytes}
\* the last position (0-based) of the document that carries the byte id b
LastCarrying(b) ==
    (CHOOSE p \in 1..Len(elements) :
        /\ elements[p].id = b
        /\ \A q \in 1..Len(elements) : elements[q].id = b => q <= p) - 1

LookedUp(type) ==
    pc = "ready" /\ last.op = "__getitem__" /\ last.args[1].type = type

\* C7 as stated: a position in [0, len) gives the element there, every other
\* integer fails with IndexError; a text or byte identifier that no element
\* carries fails with KeyError.
C7_Stated ==
    /\ LookedUp("int") =>
          LET i == last.args[1].v
          IN  IF i >= 0 /\ i < Len(elements)
              THEN last.exc = "none" /\ last.val.pos = i
              ELSE last.exc = "IndexError"
    /\ LookedUp("str") => (last.args[1].v \notin CarriedText => last.exc = "KeyError")
    /\ LookedUp("bytes") => (last.args[1].v \notin CarriedBytes => last.exc = "KeyError")

\* C7, amended: a position p in [0, len) gives the element at p, a position p
\* in [-len, -1] the element at len + p, every other integer fails with
\* IndexError; a text identifier no element carries fails with KeyError; a byte
\* identifier no element carries fails with KeyError when it decodes as UTF-8
\* and with UnicodeDecodeError when it does not; after a failed lookup the
\* index is the one the construction built.
C7_Lookup ==
    /\ LookedUp("int") =>
          LET i == last.args[1].v
              n == Len(elements)
          IN  IF i >= 0 /\ i < n
              THEN last.exc = "none" /\ last.val.pos = i /\ last.val.el = elements[i + 1]
              ELSE IF i < 0 /\ i >= -n
              THEN last.exc = "none" /\ last.val.pos = n + i
                   /\ last.val.el = elements[n + i + 1]
              ELSE last.exc = "IndexError"
    /\ LookedUp("str") => (last.args[1].v \notin CarriedText => last.exc = "KeyError")
    /\ LookedUp("bytes") =>
          (last.args[1].v \notin CarriedBytes =>
              IF id_as_str(last.args[1].v).exc = "none"
              THEN last.exc = "KeyError"
              ELSE last.exc = "UnicodeDecodeError")
    /\ (pc = "ready" /\ last.op = "__getitem__" /\ last.exc # "none") =>
          ids_to_el = BuildIndex(elements, Len(elements)).val

\* a negative position gave the last element of a document of two
C7_Witness ==
    /\ LookedUp("int")
    /\ Len(elements) = 2
    /\ last.args[1].v = -1
    /\ last.exc = "none"
    /\ last.val.pos = 1

\* C8: after construction from any document, duplicate ids allowed, a lookup
\* by the text id or by the bytes of an id some element carries returns the
\* last element of the document that carries it, whose canonical id is that id.
C8_LastWriteWins ==
    pc = "ready" =>
        \A b \in CarriedBytes :
            LET t == id_as_str(b).val
                byText == getitem(Self, StrKey(t)).res
                byBytes == getitem(Self, BytesKey(b)).res
            IN  /\ byText.exc = "none"
                /\ byText.val.pos = LastCarrying(b)
                /\ id_as_str(byText.val.el.id).val = t
                /\ byBytes.exc = "none"
                /\ byBytes.val.pos = LastCarrying(b)
                /\ id_as_str(byBytes.val.el.id).val = t
                /\ (LookedUp("str") /\ last.args[1].v = t) =>
                      (last.exc = "none" /\ last.val.pos = LastCarrying(b))
                /\ (LookedUp("bytes") /\ last.args[1].v = b) =>
                      (last.exc = "none" /\ last.val.pos = LastCarrying(b))

\* two different elements carry one id, and a lookup by its bytes gave the second
C8_Witness ==
    /\ LookedUp("bytes")
    /\ Len(elements) = 2
    /\ elements[1].id = elements[2].id
    /\ elements[1] # elements[2]
    /\ last.args[1].v = elements[1].id
    /\ last.exc = "none"
    /\ last.val.pos = 1

\* the positions (1-based) of the elements that satisfy a classifier, in order
RECURSIVE Qualifying(_, _)
Qualifying(Is(_), n) ==
    IF n = 0 THEN <<>>
    ELSE IF Is(elements[n]) THEN Append(Qualifying(Is, n - 1), n)
    ELSE Qualifying(Is, n - 1)

\* C9: after construction, for each class the bounds list and the ids list have
\* one entry per element of the document that satisfies the classifier, in
\* document order; entry i holds that element's canonical id and the min/max
\* over x and y of that same element's decoded coordinates.
C9_BoundsOfEachElement ==
    pc = "ready" =>
        LET lanes == Qualifying(is_lane, Len(elements))
            crosswalks == Qualifying(is_crosswalk, Len(elements))
        IN  /\ Len(bounds_info.lanes.bounds) = Len(lanes)
            /\ Len(bounds_info.lanes.ids) = Len(lanes)
            /\ \A i \in 1..Len(lanes) :
                  /\ bounds_info.lanes.ids[i] = id_as_str(elements[lanes[i]].id).val
                  /\ bounds_info.lanes.bounds[i] = LaneBounds(DecodeLane(elements[lanes[i]]))
            /\ Len(bounds_info.crosswalks.bounds) = Len(crosswalks)
            /\ Len(bounds_info.crosswalks.ids) = Len(crosswalks)
            /\ \A i \in 1..Len(crosswalks) :
                  /\ bounds_info.crosswalks.ids[i] =
                        id_as_str(elements[crosswalks[i]].id).val
                  /\ bounds_info.crosswalks.bounds[i] =
                        CrosswalkBounds(DecodeCrosswalk(elements[crosswalks[i]]))

-----------------------------------------------------------------------------
(* Properties of the cached geometry (Spec)                                *)

CalledOp(op) == pc = "ready" /\ last.op = op

\* the lane an id resolves to, if it resolves to one
IsLaneId(t) == t \in DOMAIN ids_to_el /\ is_lane(elements[ids_to_el[t] + 1])
DecodedLane(t) == DecodeLane(elements[ids_to_el[t] + 1])

\* C1: every call of get_lane_coords(id) returns the left and right boundaries
\* that the first call returned, whatever was called in between.
C1_CoordsAsFirstReturned ==
    (CalledOp("get_lane_coords") /\ last.exc = "none") =>
        /\ last.val.xyz_left = first_ret[last.args[1]].xyz_left
        /\ last.val.xyz_right = first_ret[last.args[1]].xyz_right

\* C2: for a lane id and n >= 2, every call of
\* get_lane_as_interpolation(id, n, INTER_ENSURE_LEN), first or repeated,
\* returns left, right and midlane of exactly n points, the ends of left and
\* right those of the decoded boundaries, midlane[i] = (left[i] + right[i]) / 2.
C2_FixedCountLane ==
    (/\ CalledOp("get_lane_as_interpolation")
     /\ last.args[3] = INTER_ENSURE_LEN
     /\ IntTrunc(last.args[2]) >= 2
     /\ IsLaneId(last.args[1])) =>
        LET n == IntTrunc(last.args[2])
            d == DecodedLane(last.args[1])
        IN  /\ last.exc = "none"
            /\ Len(last.val.xyz_left) = n
            /\ Len(last.val.xyz_right) = n
            /\ last.val.has_midlane
            /\ Len(last.val.midlane) = n
            /\ last.val.xyz_left[1] = d.xyz_left[1]
            /\ last.val.xyz_left[n] = d.xyz_left[Len(d.xyz_left)]
            /\ last.val.xyz_right[1] = d.xyz_right[1]
            /\ last.val.xyz_right[n] = d.xyz_right[Len(d.xyz_right)]
            /\ last.val.midlane = Midlane(last.val.xyz_left, last.val.xyz_right)

CachedOps ==
    {"get_lane_coords", "get_crosswalk_coords", "get_lane_traffic_control_ids",
     "get_lane_as_interpolation"}

CacheOf(op) ==
    CASE op = "get_lane_coords" -> lane_cache
      [] op = "get_crosswalk_coords" -> cw_cache
      [] op = "get_lane_traffic_control_ids" -> tc_cache
      [] op = "get_lane_as_interpolation" -> interp_cache

CacheKeys(c) == {c[i][1] : i \in 1..Len(c)}

\* the key of the last call, as lru_cache forms it from the arguments
LastKey == IF last.op = "get_lane_as_interpolation" THEN last.args ELSE last.args[1]

MaxLen(a, b) == IF Len(a) >= Len(b) THEN Len(a) ELSE Len(b)

\* a call with INTER_METER and step > 0 that evaluated the body and returned
MeterEvaluated ==
    /\ CalledOp("get_lane_as_interpolation")
    /\ last.args[3] = INTER_METER
    /\ RLt(RInt(0), last.args[2])
    /\ ~last.hit
    /\ last.exc = "none"

C10_ReadOnlyAfterConstruction ==
    [][pc = "ready" =>
          /\ elements' = elements
          /\ ids_to_el' = ids_to_el
          /\ bounds_info' = bounds_info]_vars

\* queries have run and changed the geometry cache: an interpolation is stored
\* and the lane's dict is no longer the decoded one
C10_Witness ==
    /\ pc = "ready"
    /\ Len(interp_cache) >= 1
    /\ last.op = "__iter__"
    /\ \E t \in TextIds :
          /\ IsLaneId(t)
          /\ CacheHas(lane_cache, t)
          /\ heap[CacheGet(lane_cache, t)].xyz_right # DecodedLane(t).xyz_right

====
